---- MODULE Spec2Model ----
(***************************************************************************)
(* Model of Music_Player_Client.py: the MusicPlayerClient transport        *)
(* (_send_command: connect, send, read to end of stream, deserialize,      *)
(* close) and the public operations layered on it, together with the peer  *)
(* and the socket layer as the nondeterministic environment.               *)
(***************************************************************************)
EXTENDS Integers, Sequences, FiniteSets, TLC

\* ------------------------------------------------------------------ bounds
\* largest timeout argument given to wait_for_download (arguments 0..MaxTimeout)
MaxTimeout == 3
\* longest time one get_status round trip may take, in time units
MaxCallTime == 2

\* ------------------------------------------------------- program constants
\* sock.recv(4096): the most bytes one read returns
BufSize == 4096

\* ------------------------------------------------------------------ values
\* A response mapping as the client reads it: response.get('status') and
\* response.get('data', {}).get('is_playing'); "None" is an absent key.
Statuses == {"success", "error"}
Playing == {"True", "False", "None"}
Responses == [status : Statuses, is_playing : Playing]

\* Python values an operation returns, all in one record shape.
PyNone == [tag |-> "None", status |-> "-", is_playing |-> "-"]
PyDict(r) == [tag |-> "dict", status |-> r.status, is_playing |-> r.is_playing]
PyData(r) == [tag |-> "data", status |-> "-", is_playing |-> r.is_playing]
PyBool(b) == [tag |-> "bool", status |-> "-", is_playing |-> b]

\* an optional argument: files=None is [given |-> FALSE]
NoFiles == [given |-> FALSE, val |-> <<>>]
Files(s) == [given |-> TRUE, val |-> s]
FileArgs == {NoFiles, Files(<<>>), Files(<<"a.mp3">>)}
Volumes == {-1, 0, 50, 100, 101}
Urls == {"u1"}
Positions == {"50%"}
Modes == {"PNG to JPG"}
NoArg == "-"

\* params = {} of _send_command
EmptyParams == <<>>

\* pickle.dumps / pickle.loads, as a token stream: header, fields, STOP opcode
Dumps(r) == <<"PROTO", r.status, r.is_playing, "STOP">>
DumpsRequest(q) == <<"PROTO", q, "STOP">>

\* what pickle.loads(data) raises, "none" when it returns
LoadsError(bytes) ==
    IF bytes = <<>> THEN "EOFError"
    ELSE IF bytes[1] # "PROTO" THEN "UnpicklingError"
    ELSE IF Len(bytes) < 4 THEN "EOFError"
    ELSE IF bytes[4] # "STOP" THEN "UnpicklingError"
    ELSE "none"

\* what pickle.loads(data) returns (bytes after STOP are ignored)
Loads(bytes) == [status |-> bytes[2], is_playing |-> bytes[3]]

\* what a peer may put on the stream: a well-formed response, a response cut
\* short by a crash, nothing, or bytes that are no pickle
Garbage == [wf |-> FALSE, status |-> "-", is_playing |-> "-"]
WellFormed(r) == [wf |-> TRUE, status |-> r.status, is_playing |-> r.is_playing]
PeerOutputs ==
    { [msg |-> WellFormed(r), bytes |-> Dumps(r)] : r \in Responses }
    \cup { [msg |-> Garbage, bytes |-> b] :
             b \in {<<>>, <<"junk">>, <<"PROTO", "success">>} }

\* the builtin exception hierarchy the except clauses match against
ConnectionErrorSubclasses ==
    {"ConnectionRefusedError", "ConnectionResetError", "BrokenPipeError"}
SocketErrors == ConnectionErrorSubclasses \cup {"timeout", "OSError"}

Min(a, b) == IF a < b THEN a ELSE b

VARIABLES
    connected,   \* self.connected
    peerUp,      \* whether the peer process is listening
    pc,          \* where the client is: idle, connect, send, recv, loads, returned
    op, arg,     \* the public operation in progress (or last finished) and its argument
    request,     \* the envelope of the current transport call
    calls,       \* commands of the transport calls this operation issued
    resps,       \* the responses those calls returned
    sockOpen,    \* sockets of the client that are open
    opened,      \* sockets this operation created
    sent,        \* request bytes the connection accepted
    sendCalls,   \* sock.send calls this operation made
    wire,        \* response bytes the peer wrote that the client has not read
    data,        \* data accumulated by the read loop
    peerMsg,     \* what the peer wrote in this connection
    peerClosed,  \* the peer closed its end of this connection
    lastErr,     \* the exception caught by _send_command, "none" if none
    where,       \* the step of _send_command that raised it
    lastCall,    \* outcome of the most recent finished transport call
    exc,         \* the exception the operation raised, "none" if it returned
    ret,         \* the value the operation returned
    flag0,       \* self.connected when the operation was invoked
    downAll,     \* the peer was down during the whole operation
    now,         \* time.time()
    start_time,  \* start_time of wait_for_download
    slow         \* some get_status call of this wait_for_download took time

vars == <<connected, peerUp, pc, op, arg, request, calls, resps, sockOpen, opened,
          sent, sendCalls, wire, data, peerMsg, peerClosed, lastErr, where,
          lastCall, exc, ret, flag0, downAll, now, start_time, slow>>

callVars == <<request, sockOpen, sent, wire, data, peerMsg,
              peerClosed, lastErr, where>>
clockVars == <<now, start_time, slow>>

Init ==
    /\ connected = FALSE
    /\ peerUp \in BOOLEAN
    /\ pc = "idle"
    /\ op = "none" /\ arg = NoArg
    /\ request = [command |-> "none", params |-> EmptyParams]
    /\ calls = <<>> /\ resps = <<>>
    /\ sockOpen = 0 /\ opened = 0
    /\ sent = 0 /\ sendCalls = 0
    /\ wire = <<>> /\ data = <<>>
    /\ peerMsg = Garbage /\ peerClosed = FALSE
    /\ lastErr = "none" /\ where = "none"
    /\ lastCall = "none"
    /\ exc = "none" /\ ret = PyNone
    /\ flag0 = FALSE /\ downAll = FALSE
    /\ now = 0 /\ start_time = 0 /\ slow = FALSE

\* ------------------------------------------------------------ _send_command
\* Entry of _send_command up to the socket's creation.
SendCommand(prev, n, command, params) ==
    /\ request' = [command |-> command, params |-> params]
    /\ calls' = Append(prev, command)
    /\ opened' = n + 1
    /\ sockOpen' = sockOpen + 1
    /\ sent' = 0
    /\ wire' = <<>> /\ data' = <<>>
    /\ peerMsg' = Garbage /\ peerClosed' = FALSE
    /\ lastErr' = "none" /\ where' = "none"
    /\ pc' = "connect"

\* variant: only socket.timeout is caught by the first except clause
Classify_TimeoutOnly(err) ==
    IF err = "timeout" THEN "ConnectionError" ELSE "RuntimeError"

\* variant: the first except clause lists socket.timeout and
\* ConnectionRefusedError but not their base class ConnectionError
Classify_NoBaseClass(err) ==
    IF err \in {"timeout", "ConnectionRefusedError"}
    THEN "ConnectionError"
    ELSE "RuntimeError"

\* variant: the first except clause does not list socket.timeout
Classify_NoTimeout(err) ==
    IF err \in ConnectionErrorSubclasses THEN "ConnectionError" ELSE "RuntimeError"

\* The except clauses: which exception _send_command raises for a caught one.
Classify(err) ==
    IF err = "timeout" \/ err \in ConnectionErrorSubclasses
    THEN "ConnectionError"
    ELSE "RuntimeError"

\* variant: the flag is not set on the successful path
ConnectedAfterReturn_Stale == connected

\* self.connected = True, after pickle.loads returned
ConnectedAfterReturn == TRUE

\* self.connected = False, in both except clauses
ConnectedAfterRaise == FALSE

\* variant: the socket is not closed on leaving the call
CloseSocket_Leak ==
    /\ sockOpen' = sockOpen
    /\ sent' = 0 /\ wire' = <<>> /\ data' = <<>>

\* Leaving the with block closes the socket; what the connection held
\* (bytes accepted, bytes unread, the local buffer) goes with it.
CloseSocket ==
    /\ sockOpen' = sockOpen - 1
    /\ sent' = 0 /\ wire' = <<>> /\ data' = <<>>

\* An exception inside the with block: the socket is closed on leaving the
\* block, the handler clears the flag and raises; no operation catches it.
Raise(err, step) ==
    /\ CloseSocket
    /\ connected' = ConnectedAfterRaise
    /\ lastErr' = err /\ where' = step
    /\ exc' = Classify(err)
    /\ lastCall' = "failed"
    /\ pc' = "idle"
    /\ UNCHANGED <<peerUp, op, arg, request, calls, resps, opened, sendCalls,
                   peerMsg, peerClosed, ret, flag0, downAll, clockVars>>

\* sock.connect: refused when the peer is down; accepted, or timed out,
\* when it is up. An accepting peer decides what it will write.
Connect ==
    /\ pc = "connect"
    /\ \/ /\ ~peerUp
          /\ Raise("ConnectionRefusedError", "connect")
       \/ /\ peerUp
          /\ Raise("timeout", "connect")
       \/ /\ peerUp
          /\ \E o \in PeerOutputs :
                /\ wire' = o.bytes
                /\ peerMsg' = o.msg
          /\ pc' = "send"
          /\ UNCHANGED <<connected, peerUp, op, arg, request, calls, resps, sockOpen,
                         opened, sent, sendCalls, data, peerClosed, lastErr, where,
                         lastCall, exc, ret, flag0, downAll, clockVars>>

\* sock.send(pickle.dumps(request)): one send call, its return value (the
\* number of bytes the connection accepted) is discarded.
Send ==
    /\ pc = "send"
    /\ \/ \E k \in 1..Len(DumpsRequest(request)) :
             /\ sent' = k
             /\ sendCalls' = sendCalls + 1
             /\ pc' = "recv"
             /\ UNCHANGED <<connected, peerUp, op, arg, request, calls, resps,
                            sockOpen, opened, wire, data, peerMsg, peerClosed,
                            lastErr, where, lastCall, exc, ret, flag0, downAll,
                            clockVars>>
       \/ \E e \in {"BrokenPipeError", "ConnectionResetError", "timeout", "OSError"} :
             Raise(e, "send")

\* data += chunk
Accumulate(d, chunk) == d \o chunk

\* One sock.recv(4096) of the read loop: a chunk, the end of the stream
\* (the loop breaks), or an exception.
Recv ==
    /\ pc = "recv"
    /\ \/ \E n \in 1..Min(BufSize, Len(wire)) :
             /\ data' = Accumulate(data, SubSeq(wire, 1, n))
             /\ wire' = SubSeq(wire, n + 1, Len(wire))
             /\ UNCHANGED <<connected, peerUp, pc, op, arg, request, calls, resps,
                            sockOpen, opened, sent, sendCalls, peerMsg, peerClosed,
                            lastErr, where, lastCall, exc, ret, flag0, downAll,
                            clockVars>>
       \/ /\ wire = <<>> /\ peerClosed
          /\ pc' = "loads"
          /\ UNCHANGED <<connected, peerUp, op, arg, request, calls, resps,
                         sockOpen, opened, sent, sendCalls, wire, data, peerMsg,
                         peerClosed, lastErr, where, lastCall, exc, ret, flag0,
                         downAll, clockVars>>
       \/ /\ ~peerClosed
          /\ Raise("timeout", "recv")
       \/ \E e \in {"ConnectionResetError", "OSError"} : Raise(e, "recv")

\* response = pickle.loads(data); self.connected = True; return response
\* (the with block closes the socket on the way out).
LoadsAndReturn ==
    /\ pc = "loads"
    /\ IF LoadsError(data) # "none"
       THEN Raise(LoadsError(data), "loads")
       ELSE /\ resps' = Append(resps, Loads(data))
            /\ connected' = ConnectedAfterReturn
            /\ lastCall' = "ok"
            /\ CloseSocket
            /\ pc' = "returned"
            /\ UNCHANGED <<peerUp, op, arg, request, calls, opened, sendCalls,
                           peerMsg, peerClosed, lastErr, where, exc,
                           ret, flag0, downAll, clockVars>>

\* ------------------------------------------------------------- environment
\* The peer closes its end of the connection (after writing, or early).
PeerClose ==
    /\ pc \in {"send", "recv"}
    /\ ~peerClosed
    /\ peerClosed' = TRUE
    /\ UNCHANGED <<connected, peerUp, pc, op, arg, request, calls, resps, sockOpen,
                   opened, sent, sendCalls, wire, data, peerMsg, lastErr, where,
                   lastCall, exc, ret, flag0, downAll, clockVars>>

PeerStart ==
    /\ ~peerUp
    /\ peerUp' = TRUE
    /\ downAll' = FALSE
    /\ UNCHANGED <<connected, pc, op, arg, calls, resps, opened, sendCalls, callVars,
                   lastCall, exc, ret, flag0, clockVars>>

PeerStop ==
    /\ peerUp
    /\ peerUp' = FALSE
    /\ UNCHANGED <<connected, pc, op, arg, calls, resps, opened, sendCalls, callVars,
                   lastCall, exc, ret, flag0, downAll, clockVars>>

\* -------------------------------------------------------- public operations
\* A public method is called on an idle client. Time is measured from the call.
Invoke(name, a) ==
    /\ pc = "idle"
    /\ op' = name /\ arg' = a
    /\ flag0' = connected
    /\ downAll' = ~peerUp
    /\ resps' = <<>>
    /\ sendCalls' = 0
    /\ now' = 0 /\ start_time' = 0 /\ slow' = FALSE
    /\ UNCHANGED <<connected, peerUp, lastCall>>

\* The operation is left without a transport call having been made.
NoCall ==
    /\ calls' = <<>>
    /\ opened' = 0
    /\ pc' = "idle"
    /\ UNCHANGED callVars

\* return self._send_command(command, params)
Simple(name, a, command, params) ==
    /\ Invoke(name, a)
    /\ exc' = "none" /\ ret' = PyNone
    /\ SendCommand(<<>>, 0, command, params)

play == Simple("play", NoArg, "play", EmptyParams)
pause == Simple("pause", NoArg, "pause", EmptyParams)
stop == Simple("stop", NoArg, "stop", EmptyParams)
next_track == Simple("next_track", NoArg, "next", EmptyParams)
previous_track == Simple("previous_track", NoArg, "prev", EmptyParams)
toggle_loop == Simple("toggle_loop", NoArg, "toggle_loop", EmptyParams)
get_status == Simple("get_status", NoArg, "get_status", EmptyParams)
get_playlist == Simple("get_playlist", NoArg, "get_playlist", EmptyParams)

\* variant: the lower end of the range is excluded
VolumeOK_Exclusive(volume) == 0 < volume /\ volume <= 100

\* if not 0 <= volume <= 100
VolumeOK(volume) == 0 <= volume /\ volume <= 100

set_volume(volume) ==
    IF ~VolumeOK(volume)
    THEN /\ Invoke("set_volume", volume)
         /\ exc' = "ValueError" /\ ret' = PyNone
         /\ NoCall
    ELSE Simple("set_volume", volume, "set_volume", [volume |-> volume])

\* params = {}; if files: params['files'] = files
PlaylistParams(files) ==
    IF files.given /\ Len(files.val) > 0
    THEN [files |-> files.val]
    ELSE EmptyParams

load_playlist(files) ==
    Simple("load_playlist", files, "load_playlist", PlaylistParams(files))

download(url) == Simple("download", url, "download", [url |-> url])
add_to_queue(url) == Simple("add_to_queue", url, "download", [url |-> url])
set_position(position) ==
    Simple("set_position", position, "set_position", [position |-> position])
convert_files(files, mode) ==
    Simple("convert_files", [files |-> files, mode |-> mode], "convert_files",
           [files |-> files, mode |-> mode])

SimpleOps == {"play", "pause", "stop", "next_track", "previous_track",
              "toggle_loop", "get_status", "get_playlist", "set_volume",
              "load_playlist", "download", "add_to_queue", "set_position",
              "convert_files"}

Last(s) == s[Len(s)]

\* the transport call of a one-call operation returned: the operation returns it
ReturnResponse ==
    /\ pc = "returned"
    /\ op \in SimpleOps
    /\ ret' = PyDict(Last(resps))
    /\ pc' = "idle"
    /\ UNCHANGED <<connected, peerUp, op, arg, calls, resps, opened, sendCalls,
                   callVars, lastCall, exc, flag0, downAll, clockVars>>

\* the operation returns value v
Return(v) ==
    /\ ret' = v
    /\ pc' = "idle"
    /\ UNCHANGED <<connected, peerUp, op, arg, calls, resps, opened, sendCalls,
                   callVars, lastCall, exc, flag0, downAll>>

\* the operation makes its next transport call
CallNext(command, params) ==
    /\ SendCommand(calls, opened, command, params)
    /\ UNCHANGED <<connected, peerUp, op, arg, resps, sendCalls, lastCall, exc, ret,
                   flag0, downAll>>

\* play_url: result = self.download(url)
play_url(url) == Simple("play_url", url, "download", [url |-> url])

\* if result.get('status') == 'success'
DownloadOK(result) == result.status = "success"

\* variant: the status of the get_status response is not looked at
ShouldPlay_IgnoreStatus(status) == status.is_playing # "True"

\* if status.get('status') == 'success':
\*     if not status.get('data', {}).get('is_playing')
ShouldPlay(status) == status.status = "success" /\ status.is_playing # "True"

\* play_url after each of its calls returned (time.sleep(1) before get_status
\* changes nothing the client reads)
play_url_step ==
    /\ pc = "returned"
    /\ op = "play_url"
    /\ UNCHANGED clockVars
    /\ IF Len(calls) = 1
       THEN IF DownloadOK(resps[1])
            THEN CallNext("get_status", EmptyParams)
            ELSE Return(PyDict(resps[1]))
       ELSE IF Len(calls) = 2
       THEN IF ShouldPlay(resps[2])
            THEN CallNext("play", EmptyParams)
            ELSE Return(PyDict(resps[1]))
       ELSE Return(PyDict(resps[3]))

get_current_track_info ==
    Simple("get_current_track_info", NoArg, "get_status", EmptyParams)

get_current_track_info_step ==
    /\ pc = "returned"
    /\ op = "get_current_track_info"
    /\ UNCHANGED clockVars
    /\ IF Last(resps).status = "success"
       THEN Return(PyData(Last(resps)))
       ELSE Return(PyNone)

\* variant: the loop runs while the elapsed time is at most the timeout
KeepWaiting_Inclusive(t, start, timeout) == t - start <= timeout

\* while time.time() - start_time < timeout
KeepWaiting(t, start, timeout) == t - start < timeout

\* start_time = time.time(), then the first test of the loop
wait_for_download(timeout) ==
    /\ Invoke("wait_for_download", timeout)
    /\ exc' = "none"
    /\ IF KeepWaiting(0, 0, timeout)
       THEN /\ ret' = PyNone
            /\ SendCommand(<<>>, 0, "get_status", EmptyParams)
       ELSE /\ ret' = PyBool("False")
            /\ NoCall

\* get_status returned after d time units: sleep and test the loop again,
\* or return True
wait_for_download_step ==
    /\ pc = "returned"
    /\ op = "wait_for_download"
    /\ \E d \in 0..MaxCallTime :
          /\ slow' = (slow \/ d > 0)
          /\ UNCHANGED start_time
          /\ IF Last(resps).status = "success"
             THEN /\ now' = now + d + 1
                  /\ IF KeepWaiting(now + d + 1, start_time, arg)
                     THEN CallNext("get_status", EmptyParams)
                     ELSE Return(PyBool("False"))
             ELSE /\ now' = now + d
                  /\ Return(PyBool("True"))

Next ==
    \/ play \/ pause \/ stop \/ next_track \/ previous_track \/ toggle_loop
    \/ get_status \/ get_playlist
    \/ \E v \in Volumes : set_volume(v)
    \/ \E f \in FileArgs : load_playlist(f)
    \/ \E u \in Urls : download(u)
    \/ \E u \in Urls : add_to_queue(u)
    \/ \E p \in Positions : set_position(p)
    \/ \E m \in Modes : convert_files(<<"a.png">>, m)
    \/ \E u \in Urls : play_url(u)
    \/ get_current_track_info
    \/ \E t \in 0..MaxTimeout : wait_for_download(t)
    \/ Connect \/ Send \/ Recv \/ LoadsAndReturn
    \/ ReturnResponse \/ play_url_step \/ get_current_track_info_step
    \/ wait_for_download_step
    \/ PeerClose \/ PeerStart \/ PeerStop

Spec == Init /\ [][Next]_vars

\* The client is one thread: a step of it that can be taken is taken.
ClientStep ==
    \/ Connect \/ Send \/ Recv \/ LoadsAndReturn
    \/ ReturnResponse \/ play_url_step \/ get_current_track_info_step
    \/ wait_for_download_step

FairSpec == Spec /\ WF_vars(ClientStep)

\* ------------------------------------------------------------------ claims
InCall == pc \in {"connect", "send", "recv", "loads"}
Finished == pc = "idle" /\ op # "none"
TransportFailed == Finished /\ exc \in {"ConnectionError", "RuntimeError"}

\* C1 as stated: with the peer down during the whole operation, every
\* operation, whatever its argument, ends raising ConnectionError with the
\* flag false.
C1_EveryOperationRaises ==
    (Finished /\ downAll) => (exc = "ConnectionError" /\ ~connected)

\* C1 amended: with the peer down during the whole operation, every operation
\* that makes a transport call raises ConnectionError on its first call and
\* leaves the flag false; set_volume with a volume outside 0..100 raises
\* ValueError and wait_for_download with a timeout <= 0 returns False, both
\* without a call and with the flag as it was.
C1_RaisesUnlessNoCall ==
    (Finished /\ downAll) =>
        IF op = "set_volume" /\ (arg < 0 \/ arg > 100)
        THEN exc = "ValueError" /\ calls = <<>> /\ connected = flag0
        ELSE IF op = "wait_for_download" /\ arg <= 0
        THEN /\ exc = "none" /\ ret = PyBool("False")
             /\ calls = <<>> /\ connected = flag0
        ELSE /\ exc = "ConnectionError" /\ ~connected
             /\ Len(calls) = 1 /\ lastErr = "ConnectionRefusedError"

C1_Witness ==
    /\ Finished /\ downAll /\ flag0
    /\ op = "play_url" /\ exc = "ConnectionError" /\ ~connected

\* C2: set_volume with 0 <= volume <= 100 makes exactly one transport call:
\* one socket, one request envelope with command set_volume and
\* params.volume = volume, put on the connection by one send when the
\* connection is established; with a volume outside the range it raises
\* ValueError at once, with no socket, no send and the flag unchanged.
C2_SetVolume ==
    (op = "set_volume") =>
        IF 0 <= arg /\ arg <= 100
        THEN /\ calls = <<"set_volume">> /\ opened = 1
             /\ request = [command |-> "set_volume", params |-> [volume |-> arg]]
             /\ sendCalls <= 1
             /\ (pc \in {"recv", "loads", "returned"}) => sendCalls = 1
             /\ (Finished /\ where \notin {"connect", "send"}) => sendCalls = 1
             /\ exc # "ValueError"
        ELSE /\ pc = "idle" /\ exc = "ValueError"
             /\ calls = <<>> /\ opened = 0 /\ sendCalls = 0
             /\ connected = flag0

C2_Witness ==
    /\ Finished /\ op = "set_volume" /\ arg = 0
    /\ exc = "none" /\ sendCalls = 1 /\ ret.status = "success"

C4_FlagIsLastOutcome ==
    /\ (~InCall) => (connected <=> lastCall = "ok")
    /\ (Finished /\ op = "get_status" /\ peerMsg.wf /\ lastErr \notin SocketErrors)
          => /\ exc = "none"
             /\ peerClosed
             /\ ret = [tag |-> "dict", status |-> peerMsg.status,
                        is_playing |-> peerMsg.is_playing]
             /\ connected

C4_Witness ==
    /\ Finished /\ op = "get_status" /\ ~flag0 /\ connected
    /\ peerMsg.wf /\ ret.tag = "dict" /\ ret.status = "success"
    /\ ret.is_playing = "False"

IsPrefix(a, b) == Len(a) <= Len(b) /\ a = SubSeq(b, 1, Len(a))

\* C5 as stated: play_url issues download; a download response that is not
\* 'success' is returned with no further call; otherwise get_status follows,
\* and play_url returns the download response without play when is_playing is
\* true and in every other case issues play and returns its response.
C5_PlayUnlessPlaying ==
    /\ (op = "play_url") => IsPrefix(calls, <<"download", "get_status", "play">>)
    /\ (Finished /\ op = "play_url" /\ exc = "none") =>
          IF resps[1].status # "success"
          THEN calls = <<"download">> /\ ret = PyDict(resps[1])
          ELSE IF resps[2].is_playing = "True"
          THEN calls = <<"download", "get_status">> /\ ret = PyDict(resps[1])
          ELSE calls = <<"download", "get_status", "play">> /\ ret = PyDict(resps[3])

\* C5 amended: as stated, except that play is issued only when the
\* get_status response has status 'success' and does not report is_playing
\* true; when the get_status response is not 'success', or reports is_playing
\* true, play_url returns the download response without issuing play.
C5_PlayOnlyOnSuccessfulStatus ==
    /\ (op = "play_url") => IsPrefix(calls, <<"download", "get_status", "play">>)
    /\ (Finished /\ op = "play_url" /\ exc = "none") =>
          IF resps[1].status # "success"
          THEN calls = <<"download">> /\ ret = PyDict(resps[1])
          ELSE IF resps[2].status # "success" \/ resps[2].is_playing = "True"
          THEN calls = <<"download", "get_status">> /\ ret = PyDict(resps[1])
          ELSE calls = <<"download", "get_status", "play">> /\ ret = PyDict(resps[3])

C5_Witness ==
    /\ Finished /\ op = "play_url" /\ exc = "none"
    /\ calls = <<"download", "get_status">>
    /\ resps[2].status = "error" /\ resps[2].is_playing = "False"
    /\ ret = PyDict(resps[1])

AllSuccess(rs) == \A i \in 1..Len(rs) : rs[i].status = "success"
WaitReturned == Finished /\ op = "wait_for_download" /\ exc = "none"

\* C6 as stated: wait_for_download returns True on the first poll that is not
\* 'success' and False only after every poll was 'success' and the timeout
\* elapsed; wait_for_download(3) that returns False has issued at least 3
\* get_status calls, whatever time each call takes.
C6_AtLeastThreePolls ==
    WaitReturned =>
        /\ (ret = PyBool("True")) =>
              /\ Len(resps) >= 1 /\ resps[Len(resps)].status # "success"
              /\ AllSuccess(SubSeq(resps, 1, Len(resps) - 1))
        /\ (ret = PyBool("False")) =>
              /\ AllSuccess(resps)
              /\ now - start_time >= arg
              /\ (arg = 3) => Len(calls) >= 3

\* C6 amended: as stated, except for the number of polls: a
\* wait_for_download(timeout) that returns False has issued at most timeout
\* get_status calls, at least one when timeout > 0, and exactly timeout (3 for
\* wait_for_download(3)) when the get_status calls themselves take no time;
\* time spent in get_status counts against the timeout and lowers the
\* number of polls.
C6_PollsDependOnCallTime ==
    WaitReturned =>
        /\ ret \in {PyBool("True"), PyBool("False")}
        /\ (ret = PyBool("True")) =>
              /\ Len(resps) >= 1 /\ resps[Len(resps)].status # "success"
              /\ AllSuccess(SubSeq(resps, 1, Len(resps) - 1))
        /\ (ret = PyBool("False")) =>
              /\ AllSuccess(resps)
              /\ now - start_time >= arg
              /\ Len(calls) <= arg
              /\ (arg > 0) => Len(calls) >= 1
              /\ (~slow) => Len(calls) = arg

C6_Witness ==
    /\ WaitReturned /\ arg = 3 /\ ret = PyBool("False")
    /\ slow /\ Len(calls) = 2 /\ now = 3

\* C7: every transport call creates exactly one socket, the client never has
\* more than one socket open, and whenever a call has returned or raised no
\* socket of the client is open.
C7_SocketClosedOnEveryExit ==
    /\ sockOpen <= 1
    /\ opened = Len(calls)
    /\ InCall => sockOpen = 1
    /\ (~InCall) => sockOpen = 0

C7_Witness ==
    /\ TransportFailed /\ where = "loads" /\ exc = "RuntimeError"
    /\ opened = 1 /\ sockOpen = 0

\* C8: load_playlist issues one load_playlist request whose params are
\* {files: files} whenever a files argument is given, an empty list included,
\* and empty only when no files argument is given.
C8_FilesSentWheneverGiven ==
    (op = "load_playlist") =>
        /\ calls = <<"load_playlist">>
        /\ request.command = "load_playlist"
        /\ request.params = IF arg.given THEN [files |-> arg.val] ELSE EmptyParams

\* C9: the client reads (and returns) only after the whole serialized request
\* has been handed to the connection.
C9_RequestFullyWrittenBeforeRead ==
    (pc \in {"recv", "loads"}) => sent = Len(DumpsRequest(request))

\* C10 as stated: the timeout governs connection establishment only, so no
\* call whose peer accepted and has not closed the stream is ended by a
\* timeout in the read loop.
C10_NoTimeoutInReadLoop ==
    ~(Finished /\ lastErr = "timeout" /\ where = "recv" /\ ~peerClosed
      /\ exc \in {"ConnectionError", "RuntimeError"})

\* C10 amended: the timeout is set on the socket and governs each read too:
\* the read loop ends on a zero-length read (the peer closed and everything
\* it wrote was read), on a read that times out while the peer has not
\* closed, which raises ConnectionError, or on a socket error; and once the
\* peer has closed the stream the call returns or raises.
C10_ReadLoopEnds ==
    /\ [][(pc = "recv" /\ pc' # "recv") =>
            \/ pc' = "loads" /\ peerClosed /\ wire = <<>>
            \/ /\ pc' = "idle"
               /\ where' = "recv"
               /\ lastErr' \in {"timeout", "ConnectionResetError", "OSError"}
               /\ (lastErr' = "timeout") => (exc' = "ConnectionError" /\ ~peerClosed)]_vars
    /\ ((InCall /\ peerClosed) ~> ~InCall)

C10_Witness ==
    /\ Finished /\ lastErr = "timeout" /\ where = "recv" /\ ~peerClosed
    /\ exc = "ConnectionError" /\ op = "get_playlist" /\ flag0 /\ ~connected
====
